---- MODULE Spec2Model ----
(***************************************************************************)
(* Sprint game session manager of src/index.js: the in-memory registry     *)
(* sprintGames, the connection tracker activePlayers, the socket.io rooms,  *)
(* the three timers of a game (countdown interval, end-of-window timeout,   *)
(* cleanup timeout) and the sprint_results table.                           *)
(***************************************************************************)
EXTENDS Integers, Sequences, FiniteSets, TLC

\* ---------------------------------------------------------------- bounds
NumConns == 2          \* socket ids that ever connect
MaxGames == 2          \* games ever created by POST /api/sprint/start
MaxTaps  == 2          \* taps counted for a single player of one game
MaxDbGames == 1        \* games created when the INSERT completions are followed
MaxFairGames == 1      \* games created when the runs with firing timers are followed

Conns   == 1..NumConns
GameIds == 1..MaxGames
Times   == {1000}      \* values Date.now() may return in startSprintGame

\* ------------------------------------------------------ program constants
CountdownStart == 5        \* game.countdown = 5
GameDuration   == 15000    \* gameDuration: 15000
NULL           == -1       \* JavaScript null / undefined for numeric fields

\* ------------------------------------------------------------ the state
VARIABLES
  sprintGames,        \* Map gameId -> game state (a function on the ids present)
  activePlayers,      \* Map socketId -> { gameId, username }
  rooms,              \* socket.io rooms: gameId -> set of sockets joined
  connected,          \* sockets that are connected (an id is never reused)
  nextId,             \* number of games created so far + 1 (ids are fresh)
  countdownInterval,  \* games whose setInterval of startSprintCountdown runs
  endTimeout,         \* games whose setTimeout(endSprintGame) is pending
  cleanupTimeout,     \* games whose setTimeout(sprintGames.delete) is pending
  dbQueue,            \* INSERTs handed to db.run, not yet completed
  sprint_results,     \* rows of table sprint_results, in insertion order
  accepted,           \* history: taps processed for (game, socket) while active and in roster
  ticks,              \* history: interval callbacks run per game
  gameEnded,          \* history: the game-ended payloads emitted per game
  joinOrder,          \* history: per game, the sockets in the order of their first join
  evicted,            \* history: the games the cleanup timeout has deleted
  eventLog,           \* history: per game, the names of the countdown, game-started, tap-update and game-ended events emitted to its room, in order, a run of one name written once
  leftActive          \* history: <<socket, game>> when the socket disconnected while the tracker named the game and it was active

vars == <<sprintGames, activePlayers, rooms, connected, nextId,
          countdownInterval, endTimeout, cleanupTimeout, dbQueue,
          sprint_results, accepted, ticks, gameEnded, joinOrder, evicted,
          leftActive, eventLog>>

\* --------------------------------------------------------------- inputs
\* data.username sent by a socket with join-sprint; <<>> is a missing name.
UsernameOf(c) == IF c % 2 = 1 THEN <<>> ELSE <<"user", c>>

\* The users.id in the token of the user logged in behind socket c; NULL for
\* an anonymous caller. The sockets that send a username are the logged-in
\* ones. No sprint handler reads it.
UserIdOf(c) == IF c % 2 = 1 THEN NULL ELSE 100 + c

\* --------------------------------------------------------------- events
NoEvent ==
  [name |-> "", room |-> 0, to |-> {}, players |-> <<>>, status |-> "", seconds |-> NULL,
   playerId |-> 0, username |-> <<>>, taps |-> NULL, winner |-> <<>>,
   message |-> "", duration |-> NULL]

\* socket.emit('error', { message })
ErrorEvent(c, msg) ==
  [NoEvent EXCEPT !.name = "error", !.to = {c}, !.message = msg]

\* io.to(gameId).emit('players-updated', { players, gameStatus })
PlayersUpdated(rm, g, game) ==
  [NoEvent EXCEPT !.name = "players-updated", !.room = g, !.to = rm[g],
                  !.players = game.players, !.status = game.status]

\* io.to(gameId).emit('countdown', { seconds, status: 'countdown' })
CountdownEvent(rm, g, game) ==
  [NoEvent EXCEPT !.name = "countdown", !.room = g, !.to = rm[g],
                  !.seconds = game.countdown, !.status = "countdown"]

\* io.to(gameId).emit('game-started', { status: 'active', duration })
GameStarted(rm, g, game) ==
  [NoEvent EXCEPT !.name = "game-started", !.room = g, !.to = rm[g],
                  !.status = "active", !.duration = game.gameDuration]

\* A tap-update that carries the count before the tap
TapUpdateStale(rm, g, player) ==
  [NoEvent EXCEPT !.name = "tap-update", !.room = g, !.to = rm[g],
                  !.playerId = player.id, !.username = player.username,
                  !.taps = player.taps - 1]

\* io.to(gameId).emit('tap-update', { playerId, username, taps })
TapUpdate(rm, g, player) ==
  [NoEvent EXCEPT !.name = "tap-update", !.room = g, !.to = rm[g],
                  !.playerId = player.id, !.username = player.username,
                  !.taps = player.taps]

\* io.to(gameId).emit('game-ended', { status: 'finished', results, winner })
GameEndedEvent(rm, g, sortedPlayers) ==
  [NoEvent EXCEPT !.name = "game-ended", !.room = g, !.to = rm[g],
                  !.status = "finished",
                  !.players = sortedPlayers,
                  !.winner = IF Len(sortedPlayers) > 0
                             THEN <<sortedPlayers[1]>> ELSE <<>>]

\* --------------------------------------------------- the players Map
\* A JavaScript Map keeps insertion order; it is a sequence of records here.
PlayerIds(players) == {players[i].id : i \in 1..Len(players)}

IndexOf(players, c) == CHOOSE i \in 1..Len(players) : players[i].id = c

\* Map.prototype.get
MapGet(players, c) == players[IndexOf(players, c)]

\* Map.prototype.set: an existing key keeps its position, a new one is appended
MapSet(players, c, rec) ==
  IF c \in PlayerIds(players)
  THEN [players EXCEPT ![IndexOf(players, c)] = rec]
  ELSE Append(players, rec)

\* A delete that removes nothing
MapDeleteNone(players, c) == players

\* Map.prototype.delete
MapDelete(players, c) ==
  SelectSeq(players, LAMBDA p : p.id # c)

\* Map.prototype.size
MapSize(players) == Len(players)

\* ------------------------------------------------------- Array.sort
\* The comparator turned round: fewest taps first
CompareAscending(a, b) == a.taps - b.taps

\* The comparator of endSprintGame: (a, b) => b.taps - a.taps
Compare(a, b) == b.taps - a.taps

\* An unstable sort: an element is placed before the elements it ties with
RECURSIVE InsertSortedUnstable(_, _)
InsertSortedUnstable(sorted, p) ==
  IF Len(sorted) = 0 THEN <<p>>
  ELSE IF Compare(Head(sorted), p) >= 0
       THEN <<p>> \o sorted
       ELSE <<Head(sorted)>> \o InsertSortedUnstable(Tail(sorted), p)

\* Array.prototype.sort is stable: an element is placed after every element
\* that does not compare greater than it.
RECURSIVE InsertSorted(_, _)
InsertSorted(sorted, p) ==
  IF Len(sorted) = 0 THEN <<p>>
  ELSE IF Compare(Head(sorted), p) > 0
       THEN <<p>> \o sorted
       ELSE <<Head(sorted)>> \o InsertSorted(Tail(sorted), p)

RECURSIVE ArraySort(_)
ArraySort(arr) ==
  IF Len(arr) = 0 THEN <<>>
  ELSE InsertSorted(ArraySort(SubSeq(arr, 1, Len(arr) - 1)), arr[Len(arr)])

\* ------------------------------------------------------------ records
\* A game stamped with a start time when it is built
NewGameStamped(g) ==
  [id |-> g, status |-> "waiting", players |-> <<>>, startTime |-> 1000,
   endTime |-> NULL, countdown |-> CountdownStart, gameDuration |-> GameDuration]

\* The game state built by POST /api/sprint/start
NewGame(g) ==
  [id |-> g, status |-> "waiting", players |-> <<>>, startTime |-> NULL,
   endTime |-> NULL, countdown |-> CountdownStart, gameDuration |-> GameDuration]

\* The player record built by join-sprint
NewPlayer(c, username) ==
  [id |-> c,
   username |-> IF username # <<>> THEN username ELSE <<"Player_", c>>,
   taps |-> 0, connected |-> TRUE]

\* The row inserted by endSprintGame: [gameId, null, player.taps]
ResultRow(g, player) == [game_id |-> g, user_id |-> NULL, taps |-> player.taps]

\* Every player written twice
ResultRowsTwice(g, players) ==
  [i \in 1..Len(players) |-> ResultRow(g, players[i])] \o
  [i \in 1..Len(players) |-> ResultRow(g, players[i])]

\* players.forEach(player => db.run('INSERT INTO sprint_results ...')): the
\* INSERTs endSprintGame issues, in the order of the Map
ResultRows(g, players) ==
  [i \in 1..Len(players) |-> ResultRow(g, players[i])]

\* ------------------------------------------------------------- guards
\* const game = sprintGames.get(gameId); if (!game) ...
GameFound(games, g) == g \in DOMAIN games

\* A tap counted twice
IncrementTwice(taps) == taps + 2

\* player.taps++
Increment(taps) == taps + 1

\* A join let through while the game runs
JoinAllowedLate(game) == game.status # "finished"

\* join-sprint goes on when the status is waiting or countdown
JoinAllowed(game) == game.status = "waiting" \/ game.status = "countdown"

\* A tap let through during the countdown
TapAllowedEarly(game) == game.status = "countdown" \/ game.status = "active"

\* A tap let through after the end of the window
TapAllowedLate(game) == game.status = "active" \/ game.status = "finished"

\* tap goes on when the game is active
TapAllowed(game) == game.status = "active"

\* A countdown that waits for a second player
AutoStartAtTwo(game) == MapSize(game.players) >= 2 /\ game.status = "waiting"

\* A countdown started by every join
AutoStartAlways(game) == MapSize(game.players) >= 1

\* join-sprint starts the countdown: game.players.size >= 1 && game.status
\* === 'waiting', tested after the player was added
AutoStart(game) == MapSize(game.players) >= 1 /\ game.status = "waiting"

\* the interval callback starts the game when the countdown went below zero
CountdownOver(game) == game.countdown < 0

\* ------------------------------------------------------------- helpers
\* A countdown that marks the game active at once
startSprintCountdownActive(games, g) ==
  IF g \notin DOMAIN games THEN games
  ELSE [games EXCEPT ![g].status = "active", ![g].countdown = CountdownStart]

\* startSprintCountdown(gameId): the new registry (the handler that calls it
\* records the interval it starts)
startSprintCountdown(games, g) ==
  IF g \notin DOMAIN games THEN games
  ELSE [games EXCEPT ![g].status = "countdown", ![g].countdown = CountdownStart]

\* A start that takes the start time for the end time
startSprintGameNoWindow(games, g, now) ==
  IF g \notin DOMAIN games THEN games
  ELSE [games EXCEPT ![g].status = "active", ![g].startTime = now,
                     ![g].endTime = now]

\* A start that stamps the times and forgets the status
startSprintGameNoStatus(games, g, now) ==
  IF g \notin DOMAIN games THEN games
  ELSE [games EXCEPT ![g].startTime = now,
                     ![g].endTime = now + games[g].gameDuration]

\* A game that is started only when it has a player
startSprintGameIfPlayers(games, g, now) ==
  IF g \notin DOMAIN games \/ Len(games[g].players) = 0 THEN games
  ELSE [games EXCEPT ![g].status = "active", ![g].startTime = now,
                     ![g].endTime = now + games[g].gameDuration]

\* startSprintGame(gameId): the new registry
startSprintGame(games, g, now) ==
  IF g \notin DOMAIN games THEN games
  ELSE [games EXCEPT ![g].status = "active", ![g].startTime = now,
                     ![g].endTime = now + games[g].gameDuration]

\* A cleanup that deletes nothing
RegistryKeep(games, g) == games

\* sprintGames.delete(gameId)
RegistryDelete(games, g) == [x \in DOMAIN games \ {g} |-> games[x]]

\* ------------------------------------------------------------ handlers
\* Each handler is the function the code computes: from the state it runs in
\* and its arguments to the parts of the state it writes and the events it
\* emits, in order (field out).

\* socket.on('join-sprint') with data = { gameId: g, username }
joinSprint(c, g, username) ==
  IF ~GameFound(sprintGames, g)
  THEN [sprintGames |-> sprintGames, activePlayers |-> activePlayers,
        rooms |-> rooms, countdownInterval |-> countdownInterval,
        out |-> <<ErrorEvent(c, "Game not found")>>]
  ELSE IF ~JoinAllowed(sprintGames[g])
  THEN [sprintGames |-> sprintGames, activePlayers |-> activePlayers,
        rooms |-> rooms, countdownInterval |-> countdownInterval,
        out |-> <<ErrorEvent(c, "Game already started or finished")>>]
  ELSE LET joined == [sprintGames EXCEPT ![g].players =
                        MapSet(@, c, NewPlayer(c, username))]
           rm == [rooms EXCEPT ![g] = @ \cup {c}]
           first == AutoStart(joined[g])
       IN [sprintGames |-> IF first THEN startSprintCountdown(joined, g)
                           ELSE joined,
           activePlayers |->
             [x \in DOMAIN activePlayers \cup {c} |->
                IF x = c THEN [gameId |-> g, username |-> username]
                ELSE activePlayers[x]],
           rooms |-> rm,
           countdownInterval |-> IF first THEN countdownInterval \cup {g}
                                 ELSE countdownInterval,
           out |-> <<PlayersUpdated(rm, g, joined[g])>>]

\* A tap counted in every game that has the socket in its roster
tapEverywhere(c, g) ==
  IF ~GameFound(sprintGames, g) \/ ~TapAllowed(sprintGames[g])
  THEN [sprintGames |-> sprintGames, out |-> <<>>]
  ELSE IF c \notin PlayerIds(sprintGames[g].players)
  THEN [sprintGames |-> sprintGames, out |-> <<>>]
  ELSE LET bump(game) ==
             IF c \in PlayerIds(game.players)
             THEN [game EXCEPT !.players =
                     MapSet(@, c, [MapGet(@, c) EXCEPT !.taps = Increment(@)])]
             ELSE game
           all == [x \in DOMAIN sprintGames |-> bump(sprintGames[x])]
       IN [sprintGames |-> all,
           out |-> <<TapUpdate(rooms, g, MapGet(all[g].players, c))>>]

\* socket.on('tap') with data = { gameId: g }
tap(c, g) ==
  IF ~GameFound(sprintGames, g) \/ ~TapAllowed(sprintGames[g])
  THEN [sprintGames |-> sprintGames, out |-> <<>>]
  ELSE IF c \notin PlayerIds(sprintGames[g].players)
  THEN [sprintGames |-> sprintGames, out |-> <<>>]
  ELSE LET player == MapGet(sprintGames[g].players, c)
           tapped == [player EXCEPT !.taps = Increment(@)]
       IN [sprintGames |-> [sprintGames EXCEPT ![g].players =
                              MapSet(@, c, tapped)],
           out |-> <<TapUpdate(rooms, g, tapped)>>]

\* An interval callback that starts the game before it emits its countdown
countdownTickStartsFirst(g, now) ==
  LET ticked == [sprintGames EXCEPT ![g].countdown = @ - 1]
      over == CountdownOver(ticked[g])
      started == startSprintGame(ticked, g, now)
  IN [sprintGames |-> IF over THEN started ELSE ticked,
      countdownInterval |-> IF over THEN countdownInterval \ {g}
                            ELSE countdownInterval,
      endTimeout |-> IF over THEN endTimeout \cup {g} ELSE endTimeout,
      out |-> (IF over /\ GameFound(ticked, g)
               THEN <<GameStarted(rooms, g, started[g])>> ELSE <<>>) \o
              <<CountdownEvent(rooms, g, sprintGames[g])>>]

\* The setInterval callback of startSprintCountdown for game g; now is the
\* value of Date.now() if the callback goes on to startSprintGame
countdownTick(g, now) ==
  LET ticked == [sprintGames EXCEPT ![g].countdown = @ - 1]
      over == CountdownOver(ticked[g])
      started == startSprintGame(ticked, g, now)
  IN [sprintGames |-> IF over THEN started ELSE ticked,
      countdownInterval |-> IF over THEN countdownInterval \ {g}
                            ELSE countdownInterval,
      endTimeout |-> IF over THEN endTimeout \cup {g} ELSE endTimeout,
      out |-> <<CountdownEvent(rooms, g, sprintGames[g])>> \o
              (IF over /\ GameFound(ticked, g)
               THEN <<GameStarted(rooms, g, started[g])>> ELSE <<>>)]

\* An end of the window that deletes the game at once
endSprintGameDeletes(g) ==
  IF ~GameFound(sprintGames, g)
  THEN [sprintGames |-> sprintGames, dbQueue |-> dbQueue,
        cleanupTimeout |-> cleanupTimeout, out |-> <<>>]
  ELSE LET players == sprintGames[g].players
           sortedPlayers == ArraySort(players)
       IN [sprintGames |-> RegistryDelete(sprintGames, g),
           dbQueue |-> dbQueue \o ResultRows(g, players),
           cleanupTimeout |-> cleanupTimeout \cup {g},
           out |-> <<GameEndedEvent(rooms, g, sortedPlayers)>>]

\* An end of the window that leaves the game active
endSprintGameStaysActive(g) ==
  IF ~GameFound(sprintGames, g)
  THEN [sprintGames |-> sprintGames, dbQueue |-> dbQueue,
        cleanupTimeout |-> cleanupTimeout, out |-> <<>>]
  ELSE LET players == sprintGames[g].players
           sortedPlayers == ArraySort(players)
       IN [sprintGames |-> sprintGames,
           dbQueue |-> dbQueue \o ResultRows(g, players),
           cleanupTimeout |-> cleanupTimeout \cup {g},
           out |-> <<GameEndedEvent(rooms, g, sortedPlayers)>>]

\* endSprintGame(gameId)
endSprintGame(g) ==
  IF ~GameFound(sprintGames, g)
  THEN [sprintGames |-> sprintGames, dbQueue |-> dbQueue,
        cleanupTimeout |-> cleanupTimeout, out |-> <<>>]
  ELSE LET players == sprintGames[g].players
           sortedPlayers == ArraySort(players)
       IN [sprintGames |-> [sprintGames EXCEPT ![g].status = "finished"],
           dbQueue |-> dbQueue \o ResultRows(g, players),
           cleanupTimeout |-> cleanupTimeout \cup {g},
           out |-> <<GameEndedEvent(rooms, g, sortedPlayers)>>]

\* socket.on('disconnect'); socket.io has taken the socket out of its rooms
disconnect(c) ==
  LET rm == [g \in GameIds |-> rooms[g] \ {c}]
  IN IF c \in DOMAIN activePlayers
        /\ GameFound(sprintGames, activePlayers[c].gameId)
     THEN LET g == activePlayers[c].gameId
              left == [sprintGames EXCEPT ![g].players = MapDelete(@, c)]
          IN [sprintGames |-> left,
              activePlayers |->
                [x \in DOMAIN activePlayers \ {c} |-> activePlayers[x]],
              rooms |-> rm,
              out |-> <<PlayersUpdated(rm, g, left[g])>>]
     ELSE [sprintGames |-> sprintGames, activePlayers |-> activePlayers,
           rooms |-> rm, out |-> <<>>]

\* A failed INSERT reported to the room of the game
dbRunCallbackTells(i, ok) ==
  [dbQueue |-> SubSeq(dbQueue, 1, i - 1) \o SubSeq(dbQueue, i + 1, Len(dbQueue)),
   sprint_results |-> IF ok THEN Append(sprint_results, dbQueue[i])
                      ELSE sprint_results,
   out |-> IF ok THEN <<>>
           ELSE <<[NoEvent EXCEPT !.name = "error",
                                  !.room = dbQueue[i].game_id,
                                  !.to = rooms[dbQueue[i].game_id],
                                  !.message = "Error saving sprint result"]>>]

\* The INSERT at position i of the pending ones completes and its callback
\* runs: the row is in the table when ok; on err the callback only logs
dbRunCallback(i, ok) ==
  [dbQueue |-> SubSeq(dbQueue, 1, i - 1) \o SubSeq(dbQueue, i + 1, Len(dbQueue)),
   sprint_results |-> IF ok THEN Append(sprint_results, dbQueue[i])
                      ELSE sprint_results,
   out |-> <<>>]

\* ORDER BY sr.taps DESC: the orders in which SQL may return rows, any order
\* of the rows that is descending by taps (the order among equal taps is not
\* specified)
OrderByTapsDesc(rows) ==
  LET n == Len(rows)
      perms == {f \in [1..n -> 1..n] : \A i, j \in 1..n : i # j => f[i] # f[j]}
  IN {[i \in 1..n |-> rows[f[i]]] : f \in
        {h \in perms : \A i, j \in 1..n :
                         i < j => rows[h[i]].taps >= rows[h[j]].taps}}

\* GET /api/sprint/results/:gameId: the responses the route can send. db.all
\* selects the rows of the game from sprint_results, each with the username
\* of the LEFT JOIN (null, as user_id is null); err is the outcome of db.all.
\* The route does not look at sprintGames.
getResults(g, err) ==
  IF err
  THEN {[status |-> 500, success |-> FALSE, results |-> <<>>,
         error |-> "Failed to fetch results"]}
  ELSE {[status |-> 200, success |-> TRUE, results |-> rs, error |-> ""] :
          rs \in OrderByTapsDesc(
                   [i \in 1..Len(SelectSeq(sprint_results,
                                           LAMBDA row : row.game_id = g)) |->
                      [game_id |-> g, user_id |-> NULL,
                       taps |-> SelectSeq(sprint_results,
                                  LAMBDA row : row.game_id = g)[i].taps,
                       username |-> NULL]])}

\* ---------------------------------------------------------------- Init
Init ==
  /\ sprintGames = <<>>
  /\ activePlayers = <<>>
  /\ rooms = [g \in GameIds |-> {}]
  /\ connected = Conns
  /\ nextId = 1
  /\ countdownInterval = {}
  /\ endTimeout = {}
  /\ cleanupTimeout = {}
  /\ dbQueue = <<>>
  /\ sprint_results = <<>>
  /\ accepted = [g \in GameIds |-> [c \in Conns |-> 0]]
  /\ ticks = [g \in GameIds |-> 0]
  /\ gameEnded = [g \in GameIds |-> <<>>]
  /\ joinOrder = [g \in GameIds |-> <<>>]
  /\ evicted = {}
  /\ leftActive = {}
  /\ eventLog = [g \in GameIds |-> <<>>]

\* ------------------------------------------------------------- actions
\* The event names followed in eventLog
Logged == {"countdown", "game-started", "tap-update", "game-ended"}

\* eventLog after the events of out were emitted, in their order
RECURSIVE LogEvents(_, _)
LogEvents(log, out) ==
  IF Len(out) = 0 THEN log
  ELSE LET e == Head(out)
           new == e.room \in GameIds /\ e.name \in Logged
                  /\ (Len(log[e.room]) = 0
                        \/ log[e.room][Len(log[e.room])] # e.name)
       IN LogEvents(IF new THEN [log EXCEPT ![e.room] = Append(@, e.name)]
                    ELSE log,
                    Tail(out))

\* A game that starts its countdown when it is created
CreateGameAutoStart(limit) ==
  /\ nextId <= limit
  /\ sprintGames' = [x \in DOMAIN sprintGames \cup {nextId} |->
                       IF x = nextId
                       THEN [NewGame(nextId) EXCEPT !.status = "countdown"]
                       ELSE sprintGames[x]]
  /\ countdownInterval' = countdownInterval \cup {nextId}
  /\ nextId' = nextId + 1
  /\ UNCHANGED <<activePlayers, rooms, connected, endTimeout,
                 cleanupTimeout, dbQueue, sprint_results, accepted, ticks,
                 gameEnded, joinOrder, evicted, leftActive, eventLog>>

\* POST /api/sprint/start
CreateGame(limit) ==
  /\ nextId <= limit
  /\ sprintGames' = [x \in DOMAIN sprintGames \cup {nextId} |->
                       IF x = nextId THEN NewGame(nextId) ELSE sprintGames[x]]
  /\ nextId' = nextId + 1
  /\ UNCHANGED <<activePlayers, rooms, connected, countdownInterval, endTimeout,
                 cleanupTimeout, dbQueue, sprint_results, accepted, ticks,
                 gameEnded, joinOrder, evicted,
                 leftActive, eventLog>>

\* A connected socket sends join-sprint
Join(c, g) ==
  /\ c \in connected
  /\ eventLog' = LogEvents(eventLog, joinSprint(c, g, UsernameOf(c)).out)
  /\ LET r == joinSprint(c, g, UsernameOf(c))
     IN /\ sprintGames' = r.sprintGames
        /\ activePlayers' = r.activePlayers
        /\ rooms' = r.rooms
        /\ countdownInterval' = r.countdownInterval
  /\ joinOrder' = IF g \in DOMAIN sprintGames
                     /\ sprintGames[g].status \in {"waiting", "countdown"}
                     /\ \A i \in 1..Len(joinOrder[g]) : joinOrder[g][i] # c
                  THEN [joinOrder EXCEPT ![g] = Append(@, c)]
                  ELSE joinOrder
  /\ UNCHANGED <<connected, nextId, endTimeout, cleanupTimeout, dbQueue,
                 sprint_results, accepted, ticks, gameEnded, evicted,
                 leftActive>>

\* A connected socket sends tap
Tap(c, g) ==
  /\ c \in connected
  /\ LET counts == g \in DOMAIN sprintGames
                   /\ sprintGames[g].status = "active"
                   /\ c \in PlayerIds(sprintGames[g].players)
     IN /\ counts => MapGet(sprintGames[g].players, c).taps < MaxTaps
        /\ sprintGames' = tap(c, g).sprintGames
        /\ eventLog' = LogEvents(eventLog, tap(c, g).out)
        /\ accepted' = IF counts THEN [accepted EXCEPT ![g][c] = @ + 1]
                       ELSE accepted
  /\ UNCHANGED <<activePlayers, rooms, connected, nextId, countdownInterval,
                 endTimeout, cleanupTimeout, dbQueue, sprint_results, ticks,
                 gameEnded, joinOrder, evicted,
                 leftActive>>

\* The interval of a game fires, once per second
CountdownTick(g) ==
  /\ g \in countdownInterval
  /\ \E now \in Times :
       LET r == countdownTick(g, now)
       IN /\ sprintGames' = r.sprintGames
          /\ countdownInterval' = r.countdownInterval
          /\ endTimeout' = r.endTimeout
          /\ eventLog' = LogEvents(eventLog, r.out)
  /\ ticks' = [ticks EXCEPT ![g] = @ + 1]
  /\ UNCHANGED <<activePlayers, rooms, connected, nextId, cleanupTimeout,
                 dbQueue, sprint_results, accepted, gameEnded, joinOrder,
                 evicted,
                 leftActive>>

\* The timeout set by startSprintGame fires
EndGame(g) ==
  /\ g \in endTimeout
  /\ endTimeout' = endTimeout \ {g}
  /\ eventLog' = LogEvents(eventLog, endSprintGame(g).out)
  /\ LET r == endSprintGame(g)
     IN /\ sprintGames' = r.sprintGames
        /\ dbQueue' = r.dbQueue
        /\ cleanupTimeout' = r.cleanupTimeout
        /\ gameEnded' = [gameEnded EXCEPT ![g] = @ \o r.out]
  /\ UNCHANGED <<activePlayers, rooms, connected, nextId, countdownInterval,
                 sprint_results, accepted, ticks, joinOrder, evicted,
                 leftActive>>

\* The timeout set by endSprintGame fires: sprintGames.delete(gameId).
\* The history of the game is dropped with it.
Cleanup(g) ==
  /\ g \in cleanupTimeout
  /\ cleanupTimeout' = cleanupTimeout \ {g}
  /\ sprintGames' = RegistryDelete(sprintGames, g)
  /\ evicted' = evicted \cup {g}
  /\ accepted' = [accepted EXCEPT ![g] = [c \in Conns |-> 0]]
  /\ ticks' = [ticks EXCEPT ![g] = 0]
  /\ gameEnded' = [gameEnded EXCEPT ![g] = <<>>]
  /\ joinOrder' = [joinOrder EXCEPT ![g] = <<>>]
  /\ leftActive' = {p \in leftActive : p[2] # g}
  /\ eventLog' = [eventLog EXCEPT ![g] = <<>>]
  /\ UNCHANGED <<activePlayers, rooms, connected, nextId, countdownInterval,
                 endTimeout, dbQueue, sprint_results>>

\* A connected socket disconnects
Disconnect(c) ==
  /\ c \in connected
  /\ connected' = connected \ {c}
  /\ eventLog' = LogEvents(eventLog, disconnect(c).out)
  /\ LET r == disconnect(c)
     IN /\ sprintGames' = r.sprintGames
        /\ activePlayers' = r.activePlayers
        /\ rooms' = r.rooms
  /\ leftActive' = IF /\ c \in DOMAIN activePlayers
                      /\ activePlayers[c].gameId \in DOMAIN sprintGames
                      /\ sprintGames[activePlayers[c].gameId].status = "active"
                   THEN leftActive \cup {<<c, activePlayers[c].gameId>>}
                   ELSE leftActive
  /\ UNCHANGED <<nextId, countdownInterval, endTimeout, cleanupTimeout, dbQueue,
                 sprint_results, accepted, ticks, gameEnded, joinOrder, evicted>>

\* Completion of one db.run INSERT: the row is stored, or the callback gets err
DbRun(i, ok) ==
  /\ i \in 1..Len(dbQueue)
  /\ dbQueue' = dbRunCallback(i, ok).dbQueue
  /\ sprint_results' = dbRunCallback(i, ok).sprint_results
  /\ UNCHANGED <<sprintGames, activePlayers, rooms, connected, nextId,
                 countdownInterval, endTimeout, cleanupTimeout, accepted, ticks,
                 gameEnded, joinOrder, evicted,
                 leftActive, eventLog>>

\* The session manager. The completions of the INSERTs are left pending here:
\* they touch dbQueue and sprint_results only, which no handler reads.
Next ==
  \/ CreateGame(MaxGames)
  \/ \E c \in Conns, g \in GameIds : Join(c, g)
  \/ \E c \in Conns, g \in GameIds : Tap(c, g)
  \/ \E g \in GameIds : CountdownTick(g)
  \/ \E g \in GameIds : EndGame(g)
  \/ \E g \in GameIds : Cleanup(g)
  \/ \E c \in Conns : Disconnect(c)

Spec == Init /\ [][Next]_vars

\* The session manager with timers that fire: an interval or timeout that is
\* pending stays pending until its callback runs, and Node runs it.
NextFair ==
  \/ CreateGame(MaxFairGames)
  \/ \E c \in Conns, g \in GameIds : Join(c, g)
  \/ \E c \in Conns, g \in GameIds : Tap(c, g)
  \/ \E g \in GameIds : CountdownTick(g)
  \/ \E g \in GameIds : EndGame(g)
  \/ \E g \in GameIds : Cleanup(g)
  \/ \E c \in Conns : Disconnect(c)

SpecFair ==
  /\ Init /\ [][NextFair]_vars
  /\ \A g \in GameIds : /\ WF_vars(CountdownTick(g))
                        /\ WF_vars(EndGame(g))
                        /\ WF_vars(Cleanup(g))

\* The session manager together with the database completing the INSERTs.
NextDb ==
  \/ CreateGame(MaxDbGames)
  \/ \E c \in Conns, g \in GameIds : Join(c, g)
  \/ \E c \in Conns, g \in GameIds : Tap(c, g)
  \/ \E g \in GameIds : CountdownTick(g)
  \/ \E g \in GameIds : EndGame(g)
  \/ \E g \in GameIds : Cleanup(g)
  \/ \E c \in Conns : Disconnect(c)
  \/ \E i \in 1..(NumConns * MaxGames), ok \in BOOLEAN : DbRun(i, ok)

SpecDb == Init /\ [][NextDb]_vars

\* =============================================================== claims
\* Position of socket c in a sequence of socket ids (0 when absent)
Pos(seq, c) ==
  IF \E i \in 1..Len(seq) : seq[i] = c
  THEN CHOOSE i \in 1..Len(seq) : seq[i] = c ELSE 0

\* The game-ended event the end of the window would emit for game g now
Standings(g) == endSprintGame(g).out[1].players

Live(g) == g \in DOMAIN sprintGames

\* C1: the tapCount reported for a player in the finish standings is the
\* number of its taps processed while the game was active and the player in
\* the roster. Stated for the standings the end of the window would emit in
\* the current state, which list every player of the roster, and for the
\* standings that were emitted.
C1_TapCountsExact ==
  \A g \in GameIds :
    /\ (Live(g) /\ g \in endTimeout) =>
         /\ PlayerIds(Standings(g)) = PlayerIds(sprintGames[g].players)
         /\ Len(Standings(g)) = Len(sprintGames[g].players)
         /\ \A i \in 1..Len(Standings(g)) :
              Standings(g)[i].taps = accepted[g][Standings(g)[i].id]
    /\ \A k \in 1..Len(gameEnded[g]) :
         \A i \in 1..Len(gameEnded[g][k].players) :
           gameEnded[g][k].players[i].taps
             = accepted[g][gameEnded[g][k].players[i].id]

\* C1 witness: a game ended with two players whose taps interleaved, one with
\* two taps and one with one.
C1_Witness ==
  \E g \in GameIds :
    /\ Len(gameEnded[g]) = 1
    /\ Len(gameEnded[g][1].players) = 2
    /\ gameEnded[g][1].players[1].taps = 2
    /\ gameEnded[g][1].players[2].taps = 1

\* C2: once a game is finished no tap changes a tapCount: a tap from any
\* socket leaves the registry as it is and emits nothing, and every player
\* still in the roster has the tapCount of the finish standings.
C2_FrozenAfterFinish ==
  \A g \in GameIds :
    (Live(g) /\ sprintGames[g].status = "finished") =>
      /\ Len(gameEnded[g]) = 1
      /\ \A c \in Conns :
           /\ tap(c, g).sprintGames = sprintGames
           /\ tap(c, g).out = <<>>
      /\ \A i \in 1..Len(sprintGames[g].players) :
           \E j \in 1..Len(gameEnded[g][1].players) :
             /\ gameEnded[g][1].players[j].id = sprintGames[g].players[i].id
             /\ gameEnded[g][1].players[j].taps = sprintGames[g].players[i].taps

\* C2 witness: a finished game whose roster holds a connected player with
\* taps, so that its late taps are the ones ignored.
C2_Witness ==
  \E g \in GameIds, c \in connected :
    /\ Live(g) /\ sprintGames[g].status = "finished"
    /\ c \in PlayerIds(sprintGames[g].players)
    /\ MapGet(sprintGames[g].players, c).taps >= 1

\* C3: the status of a game only moves waiting -> countdown -> active ->
\* finished, one step at a time, and a new game starts waiting.
StatusStep ==
  {<<"waiting", "countdown">>, <<"countdown", "active">>,
   <<"active", "finished">>}

C3_StatusForward ==
  [][\A g \in GameIds :
       /\ (g \in DOMAIN sprintGames /\ g \in DOMAIN sprintGames') =>
            \/ sprintGames'[g].status = sprintGames[g].status
            \/ <<sprintGames[g].status, sprintGames'[g].status>> \in StatusStep
       /\ (g \notin DOMAIN sprintGames /\ g \in DOMAIN sprintGames') =>
            sprintGames'[g].status = "waiting"]_vars

\* C3 witness: one game went all the way to finished while another is still
\* counting down.
C3_Witness ==
  \E g, h \in GameIds :
    /\ Live(g) /\ sprintGames[g].status = "finished"
    /\ Live(h) /\ sprintGames[h].status = "countdown"

\* C4: a join on an active or finished game emits one error to the caller
\* alone and changes neither the registry (rosters), the tracker, the rooms
\* nor the timers; no players-updated event is emitted.
C4_LateJoinRejected ==
  \A g \in GameIds, c \in Conns :
    (Live(g) /\ sprintGames[g].status \in {"active", "finished"}) =>
      LET r == joinSprint(c, g, UsernameOf(c))
      IN /\ r.out = <<ErrorEvent(c, "Game already started or finished")>>
         /\ r.out[1].to = {c}
         /\ r.sprintGames = sprintGames
         /\ r.activePlayers = activePlayers
         /\ r.rooms = rooms
         /\ r.countdownInterval = countdownInterval

\* C4 witness: an active game with players, and a connected socket that is
\* not in its roster and may try to join late.
C4_Witness ==
  \E g \in GameIds, c \in connected :
    /\ Live(g) /\ sprintGames[g].status = "active"
    /\ Len(sprintGames[g].players) >= 1
    /\ c \notin PlayerIds(sprintGames[g].players)

\* C5: a join naming an id that was never created or that was evicted emits
\* the not-found error to the caller and changes nothing; a tap naming such
\* an id changes nothing and emits nothing.
C5_UnknownGame ==
  \A g \in GameIds, c \in Conns :
    (g >= nextId \/ g \in evicted) =>
      LET r == joinSprint(c, g, UsernameOf(c))
      IN /\ r.out = <<ErrorEvent(c, "Game not found")>>
         /\ r.out[1].to = {c}
         /\ r.sprintGames = sprintGames
         /\ r.activePlayers = activePlayers
         /\ r.rooms = rooms
         /\ r.countdownInterval = countdownInterval
         /\ tap(c, g).sprintGames = sprintGames
         /\ tap(c, g).out = <<>>

\* C5 witness: one game was evicted, another id was never created, and a
\* socket that played the evicted game is still connected.
C5_Witness ==
  \E g, h \in GameIds, c \in connected :
    /\ g \in evicted
    /\ h >= nextId
    /\ c \in DOMAIN activePlayers /\ activePlayers[c].gameId = g

\* C6: the roster of a game is never modified while the game is finished.
C6_RosterFrozenWhenFinished ==
  [][\A g \in GameIds :
       (g \in DOMAIN sprintGames /\ sprintGames[g].status = "finished"
        /\ g \in DOMAIN sprintGames') =>
         sprintGames'[g].players = sprintGames[g].players]_vars

\* C7: a socket is in the roster of a game exactly when the tracker maps it
\* to that game.
C7_TrackerLockstep ==
  \A c \in Conns, g \in GameIds :
    (Live(g) /\ c \in PlayerIds(sprintGames[g].players))
      <=> (c \in DOMAIN activePlayers /\ activePlayers[c].gameId = g)

\* C8: a player that disconnects during countdown or active keeps its record,
\* marked not connected, with its tapCount.
C8_DisconnectKeepsRecord ==
  [][\A c \in Conns, g \in GameIds :
       (c \in connected /\ c \notin connected'
        /\ g \in DOMAIN sprintGames
        /\ sprintGames[g].status \in {"countdown", "active"}
        /\ c \in PlayerIds(sprintGames[g].players)) =>
         /\ g \in DOMAIN sprintGames'
         /\ c \in PlayerIds(sprintGames'[g].players)
         /\ ~MapGet(sprintGames'[g].players, c).connected
         /\ MapGet(sprintGames'[g].players, c).taps
              = MapGet(sprintGames[g].players, c).taps]_vars

\* C9: the finish standings are the roster ordered by tapCount descending,
\* ties in the order of the first joins; the winner is the first entry, no
\* player has more taps than the winner, and an empty roster gives empty
\* standings and no winner.
Ranked(g, st) ==
  \A i, j \in 1..Len(st) :
    i < j =>
      \/ st[i].taps > st[j].taps
      \/ /\ st[i].taps = st[j].taps
         /\ Pos(joinOrder[g], st[i].id) < Pos(joinOrder[g], st[j].id)

WinnerFirst(ev) ==
  /\ ev.winner = IF Len(ev.players) = 0 THEN <<>> ELSE <<ev.players[1]>>
  /\ \A i \in 1..Len(ev.players) : ev.players[i].taps <= ev.winner[1].taps

C9_Standings ==
  \A g \in GameIds :
    /\ (Live(g) /\ g \in endTimeout) =>
         LET ev == endSprintGame(g).out[1]
             roster == sprintGames[g].players
         IN /\ Len(ev.players) = Len(roster)
            /\ {ev.players[i] : i \in 1..Len(ev.players)}
                 = {roster[i] : i \in 1..Len(roster)}
            /\ Ranked(g, ev.players)
            /\ WinnerFirst(ev)
    /\ \A k \in 1..Len(gameEnded[g]) :
         /\ Ranked(g, gameEnded[g][k].players)
         /\ WinnerFirst(gameEnded[g][k])

\* C9 witness: one game ended with an empty roster and no winner, another
\* with two players tied at one tap each, the one that joined first ranked
\* first and named the winner.
C9_Witness ==
  \E g, h \in GameIds :
    /\ Len(gameEnded[g]) = 1
    /\ gameEnded[g][1].players = <<>> /\ gameEnded[g][1].winner = <<>>
    /\ Len(gameEnded[h]) = 1
    /\ Len(gameEnded[h][1].players) = 2
    /\ gameEnded[h][1].players[1].taps = 1
    /\ gameEnded[h][1].players[2].taps = 1
    /\ gameEnded[h][1].winner[1].id = joinOrder[h][1]

\* C10: counted from the first join, a game is active after exactly five
\* callbacks of the countdown interval.
C10_ActiveAfterFiveTicks ==
  \A g \in GameIds :
    Live(g) =>
      /\ ticks[g] < CountdownStart =>
           sprintGames[g].status \in {"waiting", "countdown"}
      /\ ticks[g] >= CountdownStart =>
           sprintGames[g].status \in {"active", "finished"}

\* No event of out goes to the room of game B
Quiet(out, B) == \A i \in 1..Len(out) : out[i].room # B

SameTimers(interval, ending, cleaning, B) ==
  /\ (B \in interval) <=> (B \in countdownInterval)
  /\ (B \in ending) <=> (B \in endTimeout)
  /\ (B \in cleaning) <=> (B \in cleanupTimeout)

Frame(A, B) ==
  /\ \A c \in Conns :
       LET r == joinSprint(c, A, UsernameOf(c))
       IN /\ B \in DOMAIN r.sprintGames
          /\ r.sprintGames[B] = sprintGames[B]
          /\ SameTimers(r.countdownInterval, endTimeout, cleanupTimeout, B)
          /\ Quiet(r.out, B)
  /\ \A c \in Conns :
       /\ B \in DOMAIN tap(c, A).sprintGames
       /\ tap(c, A).sprintGames[B] = sprintGames[B]
       /\ Quiet(tap(c, A).out, B)
  /\ A \in countdownInterval =>
       \A now \in Times :
         LET r == countdownTick(A, now)
         IN /\ B \in DOMAIN r.sprintGames
            /\ r.sprintGames[B] = sprintGames[B]
            /\ SameTimers(r.countdownInterval, r.endTimeout, cleanupTimeout, B)
            /\ Quiet(r.out, B)
  /\ A \in endTimeout =>
       LET r == endSprintGame(A)
       IN /\ B \in DOMAIN r.sprintGames
          /\ r.sprintGames[B] = sprintGames[B]
          /\ SameTimers(countdownInterval, endTimeout \ {A}, r.cleanupTimeout, B)
          /\ Quiet(r.out, B)
          /\ SelectSeq(r.dbQueue, LAMBDA row : row.game_id = B)
               = SelectSeq(dbQueue, LAMBDA row : row.game_id = B)
  /\ A \in cleanupTimeout =>
       /\ B \in DOMAIN RegistryDelete(sprintGames, A)
       /\ RegistryDelete(sprintGames, A)[B] = sprintGames[B]

\* Something of game A changes in the step: its record, its presence in the
\* registry or one of its timers
Changed(A) ==
  \/ Live(A) # Live(A)'
  \/ Live(A) /\ Live(A)' /\ sprintGames'[A] # sprintGames[A]
  \/ (A \in countdownInterval) # (A \in countdownInterval')
  \/ (A \in endTimeout) # (A \in endTimeout')
  \/ (A \in cleanupTimeout) # (A \in cleanupTimeout')

\* The step leaves game B alone: record, timers, counted taps, emitted
\* standings
Untouched(B) ==
  /\ Live(B)'
  /\ sprintGames'[B] = sprintGames[B]
  /\ SameTimers(countdownInterval', endTimeout', cleanupTimeout', B)
  /\ accepted'[B] = accepted[B]
  /\ gameEnded'[B] = gameEnded[B]

C11_Frame ==
  \A A, B \in GameIds : (A # B /\ Live(B)) => Frame(A, B)

C11_Step ==
  \A A, B \in GameIds : (A # B /\ Live(B) /\ Changed(A)) => Untouched(B)

\* C11: for two distinct games A and B, a join, tap, interval callback (with
\* the start of the game), end of the window or cleanup processed for A
\* leaves B's record (status, roster, taps, countdown, times) and B's timers
\* as they are and emits nothing to B's room; so in every interleaving a step
\* that changes A leaves B, its counted taps and its emitted standings alone,
\* and B's standings are those of its own events.
C11_Isolation == [](C11_Frame) /\ [][C11_Step]_vars

\* Both games ran side by side and each emitted standings with counted taps
C11_Witness ==
  \A g \in GameIds :
    /\ Len(gameEnded[g]) = 1
    /\ \E i \in 1..Len(gameEnded[g][1].players) :
         gameEnded[g][1].players[i].taps >= 1

\* The sockets the tracker associates with game g
Tracked(tracker, g) ==
  {c \in DOMAIN tracker : tracker[c].gameId = g}

\* Every event of out sent to a room reaches the sockets tracked to the game
ToTracked(out, tracker) ==
  \A i \in 1..Len(out) :
    out[i].room \in GameIds => out[i].to = Tracked(tracker, out[i].room)

\* C12: every event a handler broadcasts for a game (players-updated,
\* countdown, game-started, tap-update, game-ended) is delivered to exactly
\* the sockets whose activePlayers entry names that game, the entry taken
\* after the handler has run; a socket that joined A and then B gets no more
\* of A's events.
C12_DeliveredToTracked ==
  /\ \A c \in connected, g \in GameIds :
       /\ ToTracked(joinSprint(c, g, UsernameOf(c)).out,
                    joinSprint(c, g, UsernameOf(c)).activePlayers)
       /\ ToTracked(tap(c, g).out, activePlayers)
  /\ \A g \in countdownInterval, now \in Times :
       ToTracked(countdownTick(g, now).out, activePlayers)
  /\ \A g \in endTimeout : ToTracked(endSprintGame(g).out, activePlayers)
  /\ \A c \in connected :
       ToTracked(disconnect(c).out, disconnect(c).activePlayers)

\* The INSERTs issued so far for game g (none completes under Spec)
Writes(queue, g) == SelectSeq(queue, LAMBDA row : row.game_id = g)

\* The step in which game g goes from active to finished
Finishes(g) ==
  /\ Live(g) /\ sprintGames[g].status = "active"
  /\ Live(g)' /\ sprintGames'[g].status = "finished"

C13_Step ==
  \A g \in GameIds :
    IF Finishes(g)
    THEN /\ Writes(dbQueue, g) = <<>>
         /\ Len(Writes(dbQueue', g))
              = Cardinality(PlayerIds(sprintGames[g].players))
         /\ \A i \in 1..Len(sprintGames[g].players) :
              Writes(dbQueue', g)[i]
                = [game_id |-> g, user_id |-> NULL,
                   taps |-> sprintGames[g].players[i].taps]
    ELSE Writes(dbQueue', g) = Writes(dbQueue, g)

\* C13: an INSERT is issued for a game only in the step that takes it from
\* active to finished, and in that step exactly one per player of the roster,
\* with the player's taps: none before, none in any other step, and no player
\* twice.
C13_WriteOnce == [][C13_Step]_vars

\* A finished game with two players, and one INSERT issued for each
C13_Witness ==
  \E g \in GameIds :
    /\ Live(g) /\ sprintGames[g].status = "finished"
    /\ Len(sprintGames[g].players) = 2
    /\ Len(Writes(dbQueue, g)) = 2

\* The rows of game g in a table or a queue of INSERTs
RowsOf(rows, g) == SelectSeq(rows, LAMBDA row : row.game_id = g)

\* Whatever became of the INSERTs of a finished game, its game-ended event
\* was emitted once, names its first player the winner, and the cleanup is
\* scheduled; and the callback of an INSERT emits nothing
C14_State ==
  /\ \A g \in GameIds :
       (Live(g) /\ sprintGames[g].status = "finished") =>
         /\ Len(gameEnded[g]) = 1
         /\ gameEnded[g][1].name = "game-ended"
         /\ WinnerFirst(gameEnded[g][1])
         /\ g \in cleanupTimeout
  /\ \A i \in 1..Len(dbQueue), ok \in BOOLEAN : dbRunCallback(i, ok).out = <<>>

\* The completion of an INSERT, stored or failed, leaves the emitted events,
\* the games and the timers as they are
C14_Step ==
  Len(dbQueue') < Len(dbQueue) =>
    UNCHANGED <<gameEnded, sprintGames, countdownInterval, endTimeout,
                cleanupTimeout, rooms, activePlayers>>

\* C14: game-ended is emitted in the step that finishes the game, before any
\* of its INSERTs completes, and neither the emitted standings and winner nor
\* the scheduled cleanup change when an INSERT is stored or fails; a failed
\* INSERT sends nothing to any socket.
C14_EndedWhateverTheWrites == [](C14_State) /\ [][C14_Step]_vars

\* Standings for two players were emitted; one INSERT failed, one was stored
C14_Witness ==
  \E g \in GameIds :
    /\ Len(gameEnded[g]) = 1
    /\ Len(gameEnded[g][1].players) = 2
    /\ RowsOf(dbQueue, g) = <<>>
    /\ Len(RowsOf(sprint_results, g)) = 1

\* The taps of a sequence of rows or players, in order
TapsOf(rows) == [i \in 1..Len(rows) |-> rows[i].taps]

\* C15: while a finished game is in the registry (the 30 seconds before the
\* cleanup) the results route answers with the rows stored for it, and once
\* the cleanup has deleted the game it answers SessionNotFound. The database
\* read itself succeeds.
C15_ResultsUntilEviction ==
  \A g \in GameIds : \A r \in getResults(g, FALSE) :
    /\ (Live(g) /\ sprintGames[g].status = "finished") =>
         /\ r.success
         /\ Len(r.results) = Len(RowsOf(sprint_results, g))
         /\ \A i \in 1..Len(r.results) :
              \E k \in 1..Len(sprint_results) :
                /\ sprint_results[k].game_id = g
                /\ sprint_results[k].taps = r.results[i].taps
    /\ g \in evicted =>
         /\ ~r.success
         /\ r.error = "SessionNotFound"

\* The rows sorted by taps, most first, rows of equal taps in the order they
\* have in the table
RECURSIVE SortedDesc(_)
SortedDesc(rows) ==
  IF Len(rows) = 0 THEN <<>>
  ELSE LET k == CHOOSE i \in 1..Len(rows) :
                  /\ \A j \in 1..Len(rows) : rows[j].taps <= rows[i].taps
                  /\ \A j \in 1..(i - 1) : rows[j].taps < rows[i].taps
       IN <<rows[k]>> \o
          SortedDesc(SubSeq(rows, 1, k - 1) \o SubSeq(rows, k + 1, Len(rows)))

\* Every INSERT of game g was stored: none pending, and as many rows as the
\* emitted standings have players
AllStored(g) ==
  /\ Len(gameEnded[g]) = 1
  /\ RowsOf(dbQueue, g) = <<>>
  /\ Len(RowsOf(sprint_results, g)) = Len(gameEnded[g][1].players)

\* C16: when every INSERT of a finished game was stored, the stored rows
\* sorted by taps descending (equal taps in write order) carry the same
\* sequence of taps as the results of the emitted game-ended event, and so do
\* the rows the results route returns.
C16_StoredMatchesStandings ==
  \A g \in GameIds :
    AllStored(g) =>
      /\ TapsOf(SortedDesc(RowsOf(sprint_results, g)))
           = TapsOf(gameEnded[g][1].players)
      /\ \A r \in getResults(g, FALSE) :
           TapsOf(r.results) = TapsOf(gameEnded[g][1].players)

\* Two players with different taps, both rows stored
C16_Witness ==
  \E g \in GameIds :
    /\ AllStored(g)
    /\ Len(gameEnded[g][1].players) = 2
    /\ gameEnded[g][1].players[1].taps > gameEnded[g][1].players[2].taps

\* C17: a join-sprint that is let through (game found, status waiting or
\* countdown) puts the socket in the roster with taps 0 and emits one
\* players-updated event whose players contain the socket and whose
\* gameStatus is the status the game has when the handler has finished, which
\* for the first joiner is countdown.
C17_JoinReportsStatus ==
  \A c \in connected, g \in GameIds :
    (Live(g) /\ sprintGames[g].status \in {"waiting", "countdown"}) =>
      LET r == joinSprint(c, g, UsernameOf(c))
      IN /\ c \in PlayerIds(r.sprintGames[g].players)
         /\ MapGet(r.sprintGames[g].players, c).taps = 0
         /\ Len(r.out) = 1
         /\ r.out[1].name = "players-updated"
         /\ c \in PlayerIds(r.out[1].players)
         /\ r.out[1].status = r.sprintGames[g].status

\* C18: when the disconnect handler has run for socket c, activePlayers has
\* no entry for c, whether the game c last joined is waiting, counting down,
\* active, finished or deleted from the registry; and for a socket that never
\* joined the handler changes nothing and emits nothing.
C18_DisconnectClearsTracker ==
  /\ \A c \in connected : c \notin DOMAIN disconnect(c).activePlayers
  /\ \A c \in Conns : c \notin connected => c \notin DOMAIN activePlayers
  /\ \A c \in connected :
       (c \notin DOMAIN activePlayers /\ \A g \in GameIds : c \notin rooms[g]) =>
         /\ disconnect(c).sprintGames = sprintGames
         /\ disconnect(c).activePlayers = activePlayers
         /\ disconnect(c).rooms = rooms
         /\ disconnect(c).out = <<>>

\* C19: once a socket has disconnected while the tracker named an active game,
\* a tap of that socket for that game changes no taps and emits no tap-update,
\* in every later state.
C19_NoTapAfterLeaving ==
  \A p \in leftActive :
    /\ tap(p[1], p[2]).sprintGames = sprintGames
    /\ tap(p[1], p[2]).out = <<>>

\* The socket had taps counted, left, and the game is still active
C19_Witness ==
  \E p \in leftActive :
    /\ Live(p[2]) /\ sprintGames[p[2]].status = "active"
    /\ accepted[p[2]][p[1]] >= 1

\* Game g was created, was not deleted, and no join-sprint for it was let
\* through
NeverJoined(g) == g < nextId /\ g \notin evicted /\ joinOrder[g] = <<>>

C20_State ==
  \A g \in GameIds :
    NeverJoined(g) =>
      /\ Live(g)
      /\ sprintGames[g].status = "waiting"
      /\ sprintGames[g].players = <<>>
      /\ sprintGames[g].countdown = CountdownStart
      /\ g \notin countdownInterval \cup endTimeout \cup cleanupTimeout
      /\ ticks[g] = 0
      /\ gameEnded[g] = <<>>

\* No step deletes a game with no join
C20_Step ==
  \A g \in GameIds :
    NeverJoined(g) => (g \notin evicted' /\ Live(g)')

\* C20: a game for which no join-sprint was ever let through stays waiting
\* with an empty roster: its interval, its end timeout and its cleanup are
\* never set and never fire, and it stays in sprintGames.
C20_StaysWaiting == [](C20_State) /\ [][C20_Step]_vars

\* A game nobody joined is still waiting after another game ran its course
\* and was deleted and every socket has gone
C20_Witness ==
  \E g \in GameIds :
    /\ NeverJoined(g)
    /\ Live(g) /\ sprintGames[g].status = "waiting"
    /\ evicted # {}
    /\ connected = {}

\* The step creates a game: the counter of created games moves
Creates == nextId' # nextId

C21_Step ==
  Creates =>
    /\ nextId \notin DOMAIN sprintGames
    /\ nextId \notin evicted
    /\ DOMAIN sprintGames' = DOMAIN sprintGames \cup {nextId}
    /\ sprintGames'[nextId].id = nextId
    /\ sprintGames'[nextId].status = "waiting"
    /\ sprintGames'[nextId].players = <<>>
    /\ sprintGames'[nextId].startTime = NULL
    /\ sprintGames'[nextId].endTime = NULL
    /\ nextId \notin countdownInterval' \cup endTimeout' \cup cleanupTimeout'
    /\ \A g \in DOMAIN sprintGames : sprintGames'[g] = sprintGames[g]
    /\ UNCHANGED <<activePlayers, rooms, countdownInterval, endTimeout,
                   cleanupTimeout, dbQueue, sprint_results>>

\* C21: POST /api/sprint/start adds exactly one game to sprintGames, under an
\* id that is not in the registry and never was, with status waiting, an
\* empty players Map, startTime and endTime null and no timer, and leaves
\* every other game, activePlayers, the rooms, the timers and the database
\* as they are.
C21_CreateOnlyInserts == [][C21_Step]_vars

\* The second game was created, and is untouched, beside a game with a
\* player, a tracker entry and a running timer
C21_Witness ==
  /\ nextId = 3
  /\ Live(2) /\ sprintGames[2] = NewGame(2)
  /\ Live(1) /\ sprintGames[1].players # <<>>
  /\ activePlayers # <<>>
  /\ 1 \in countdownInterval \cup endTimeout \cup cleanupTimeout

\* Game g is in the registry with the given status
HasStatus(g, st) == Live(g) /\ sprintGames[g].status = st

\* C22: with timers that fire, a game a join was let through for (it is in
\* countdown from that join on) becomes active, an active game becomes
\* finished, and a finished game is deleted from the registry, whatever the
\* sockets do in between, disconnecting included.
C22_RunsToEviction ==
  \A g \in GameIds :
    /\ HasStatus(g, "countdown") ~> HasStatus(g, "active")
    /\ HasStatus(g, "active") ~> HasStatus(g, "finished")
    /\ HasStatus(g, "finished") ~> (g \in evicted /\ ~Live(g))

\* A game that players had joined finished with nobody in its standings,
\* and nobody had left while it was active: all had left during the countdown
C22_Witness ==
  \E g \in GameIds :
    /\ HasStatus(g, "finished")
    /\ joinOrder[g] # <<>>
    /\ Len(gameEnded[g]) = 1 /\ gameEnded[g][1].players = <<>>
    /\ leftActive = {}

\* A pending timer finds its game in the registry in the status it is meant
\* for (so a timer is never set while one of its kind is pending for the
\* game); game-ended went out at most once
C23_State ==
  \A g \in GameIds :
    /\ g \in countdownInterval => HasStatus(g, "countdown")
    /\ g \in endTimeout => HasStatus(g, "active")
    /\ g \in cleanupTimeout => HasStatus(g, "finished")
    /\ Len(gameEnded[g]) <= 1

\* The start takes effect on a game in countdown that was never started, the
\* end on an active game that has emitted no game-ended and issued no INSERT,
\* the deletion on a finished game
C23_Step ==
  \A g \in GameIds :
    /\ (Live(g) /\ Live(g)' /\ sprintGames[g].status # "active"
          /\ sprintGames'[g].status = "active") =>
         /\ sprintGames[g].status = "countdown"
         /\ sprintGames[g].startTime = NULL
         /\ g \in countdownInterval /\ g \notin countdownInterval'
    /\ (Live(g) /\ Live(g)' /\ sprintGames[g].status # "finished"
          /\ sprintGames'[g].status = "finished") =>
         /\ sprintGames[g].status = "active"
         /\ gameEnded[g] = <<>> /\ Len(gameEnded'[g]) = 1
         /\ Writes(dbQueue, g) = <<>>
         /\ g \in endTimeout /\ g \notin endTimeout'
    /\ (Live(g) /\ ~Live(g)') =>
         /\ sprintGames[g].status = "finished"
         /\ g \in cleanupTimeout /\ g \notin cleanupTimeout'
    /\ (gameEnded'[g] # gameEnded[g] /\ gameEnded'[g] # <<>>) =>
         (HasStatus(g, "active") /\ gameEnded[g] = <<>>)

\* C23: the interval callback starts a game only when it is in the registry
\* in countdown, the end timeout ends it only when it is active, the cleanup
\* deletes it only when it is finished; so a game is started once, its
\* game-ended event is emitted once and its INSERTs are issued once.
C23_CallbacksInExpectedState == [](C23_State) /\ [][C23_Step]_vars

\* Two games ran: one was deleted after it finished, the other is finished,
\* and INSERTs were issued for both
C23_Witness ==
  \E g, h \in GameIds :
    /\ g \in evicted
    /\ HasStatus(h, "finished") /\ Len(gameEnded[h]) = 1
    /\ Writes(dbQueue, g) # <<>> /\ Writes(dbQueue, h) # <<>>

\* C24: a run of the interval callback takes 1 off game.countdown and emits
\* one countdown event whose seconds is the value game.countdown has when the
\* callback has run.
C24_TickBroadcastsNewValue ==
  \A g \in countdownInterval, now \in Times :
    LET r == countdownTick(g, now)
    IN /\ r.sprintGames[g].countdown = sprintGames[g].countdown - 1
       /\ r.out[1].name = "countdown"
       /\ \A i \in 1..Len(r.out) : r.out[i].name = "countdown" => i = 1
       /\ r.out[1].seconds = r.sprintGames[g].countdown

\* C25: the join-sprint that finds the game waiting sets it to countdown with
\* countdown 5 and starts its interval, none running before; a join-sprint
\* that finds it in countdown leaves status and countdown as they are and
\* starts no interval: the one that runs stays the only one.
C25_CountdownStartedOnce ==
  \A c \in connected, g \in GameIds :
    LET r == joinSprint(c, g, UsernameOf(c))
    IN /\ HasStatus(g, "waiting") =>
            /\ r.sprintGames[g].status = "countdown"
            /\ r.sprintGames[g].countdown = CountdownStart
            /\ g \notin countdownInterval
            /\ r.countdownInterval = countdownInterval \cup {g}
       /\ HasStatus(g, "countdown") =>
            /\ r.sprintGames[g].status = "countdown"
            /\ r.sprintGames[g].countdown = sprintGames[g].countdown
            /\ g \in countdownInterval
            /\ r.countdownInterval = countdownInterval

\* A socket can join a game whose countdown has run down to 2, and the game
\* it joins still has countdown 2
C25_Witness ==
  \E c \in connected, g \in GameIds :
    /\ HasStatus(g, "countdown")
    /\ sprintGames[g].countdown = 2
    /\ c \notin PlayerIds(sprintGames[g].players)
    /\ Len(joinSprint(c, g, UsernameOf(c)).sprintGames[g].players) = 2
    /\ joinSprint(c, g, UsernameOf(c)).sprintGames[g].countdown = 2

\* The tap of socket c for game g is counted: the game is active and c is in
\* its roster
Counts(c, g) ==
  HasStatus(g, "active") /\ c \in PlayerIds(sprintGames[g].players)

C26_State ==
  \A c \in Conns, g \in GameIds :
    LET r == tap(c, g)
    IN IF Counts(c, g)
       THEN LET old == sprintGames[g].players
                new == r.sprintGames[g].players
            IN /\ DOMAIN r.sprintGames = DOMAIN sprintGames
               /\ \A h \in DOMAIN sprintGames \ {g} :
                    r.sprintGames[h] = sprintGames[h]
               /\ r.sprintGames[g] = [sprintGames[g] EXCEPT !.players = new]
               /\ Len(new) = Len(old)
               /\ \A i \in 1..Len(old) :
                    IF old[i].id = c
                    THEN new[i] = [old[i] EXCEPT !.taps = old[i].taps + 1]
                    ELSE new[i] = old[i]
               /\ Len(r.out) = 1
               /\ r.out[1].name = "tap-update"
               /\ r.out[1].room = g
               /\ r.out[1].playerId = c
               /\ r.out[1].taps = MapGet(old, c).taps + 1
       ELSE r.sprintGames = sprintGames /\ r.out = <<>>

\* A step in which a tap is counted changes the games as the handler says and
\* leaves the tracker, the rooms and the timers alone
C26_Step ==
  \A c \in Conns, g \in GameIds :
    accepted'[g][c] > accepted[g][c] =>
      /\ Counts(c, g)
      /\ sprintGames' = tap(c, g).sprintGames
      /\ accepted'[g][c] = accepted[g][c] + 1
      /\ UNCHANGED <<activePlayers, rooms, countdownInterval, endTimeout,
                     cleanupTimeout, dbQueue, sprint_results>>

\* C26: a tap for an active game from a socket in its roster adds exactly 1
\* to that player's taps, emits one tap-update with the new taps, and leaves
\* the other players, the roster and its order, the status, the other games,
\* the tracker and the timers as they are; any other tap changes nothing and
\* emits nothing.
C26_TapFrame == [](C26_State) /\ [][C26_Step]_vars

\* An active game with two players, both with counted taps
C26_Witness ==
  \E g \in GameIds :
    /\ HasStatus(g, "active")
    /\ Len(sprintGames[g].players) = 2
    /\ \A i \in 1..2 : sprintGames[g].players[i].taps = 1
    /\ \A c \in Conns : accepted[g][c] = 1

\* Once game-ended went out for a game no tap emits a tap-update for it, and
\* the emitted results carry for each player the taps counted for it
C27_State ==
  \A g \in GameIds :
    /\ (gameEnded[g] # <<>> \/ g \in evicted) =>
         \A c \in Conns : tap(c, g).out = <<>>
    /\ \A k \in 1..Len(gameEnded[g]) :
         \A i \in 1..Len(gameEnded[g][k].players) :
           gameEnded[g][k].players[i].taps
             = accepted[g][gameEnded[g][k].players[i].id]

\* After game-ended no tap is counted for the game
C27_Step ==
  \A g \in GameIds, c \in Conns :
    gameEnded[g] # <<>> => accepted'[g][c] <= accepted[g][c]

\* C27: among the events of one game no tap-update follows game-ended, and
\* the results of game-ended hold every tap that was counted before
\* endSprintGame ran.
C27_NoTapAfterEnded == [](C27_State) /\ [][C27_Step]_vars

\* game-ended went out with counted taps for a player that is still
\* connected and in the roster, so that it can send more taps
C27_Witness ==
  \E g \in GameIds, c \in connected :
    /\ Len(gameEnded[g]) = 1
    /\ Live(g) /\ c \in PlayerIds(sprintGames[g].players)
    /\ accepted[g][c] = 1
    /\ \E i \in 1..Len(gameEnded[g][1].players) :
         /\ gameEnded[g][1].players[i].id = c
         /\ gameEnded[g][1].players[i].taps = 1

\* Every game that was created and not deleted by its cleanup is in the
\* registry; a finished one has its cleanup pending, the others have none
C28_State ==
  \A g \in GameIds :
    /\ (g < nextId /\ g \notin evicted) <=> Live(g)
    /\ Live(g) => (g \in cleanupTimeout <=> sprintGames[g].status = "finished")

\* A game leaves the registry only when it is finished and its pending
\* cleanup fires, and the cleanup is set only in the step that finishes it
C28_Step ==
  \A g \in GameIds :
    /\ (Live(g) /\ ~Live(g)') =>
         /\ sprintGames[g].status = "finished"
         /\ g \in cleanupTimeout /\ g \notin cleanupTimeout'
         /\ g \in evicted'
         /\ \A h \in DOMAIN sprintGames \ {g} :
              h \in DOMAIN sprintGames' /\ sprintGames'[h] = sprintGames[h]
    /\ (g \notin cleanupTimeout /\ g \in cleanupTimeout') =>
         (HasStatus(g, "active") /\ sprintGames'[g].status = "finished")
    /\ ~Live(g) /\ g < nextId => ~Live(g)'

\* C28: a game is deleted from sprintGames only by the cleanup timeout that
\* endSprintGame set when it finished the game: a waiting, counting or active
\* game is never deleted, a finished game stays until that timeout fires, and
\* a deleted game does not come back.
C28_DeletedOnlyByCleanup == [](C28_State) /\ [][C28_Step]_vars

\* One game was deleted by its cleanup while the other, with no player left
\* and every socket gone, is still there, active
C28_Witness ==
  \E g, h \in GameIds :
    /\ g \in evicted /\ ~Live(g)
    /\ HasStatus(h, "active")
    /\ sprintGames[h].players = <<>>
    /\ connected = {}

\* The taps of socket c in the players of a game (c is in them)
TapsIn(game, c) == MapGet(game.players, c).taps

\* taps is a natural number, and 0 while the game is waiting or counting
\* down, also in the record a join-sprint of a socket already in the roster
\* writes
C29_State ==
  \A g \in DOMAIN sprintGames :
    /\ \A i \in 1..Len(sprintGames[g].players) :
         /\ sprintGames[g].players[i].taps \in Nat
         /\ sprintGames[g].status \in {"waiting", "countdown"} =>
              sprintGames[g].players[i].taps = 0
    /\ \A c \in PlayerIds(sprintGames[g].players) :
         sprintGames[g].status \in {"waiting", "countdown"} =>
           LET r == joinSprint(c, g, UsernameOf(c))
           IN /\ TapsIn(r.sprintGames[g], c) = 0
              /\ r.sprintGames[g].status = "countdown"

\* While a player stays in the roster its taps do not go down, and they
\* change only in a step that finds and leaves the game active
C29_Step ==
  \A g \in GameIds :
    (Live(g) /\ Live(g)') =>
      \A c \in PlayerIds(sprintGames[g].players)
                 \cap PlayerIds(sprintGames'[g].players) :
        /\ TapsIn(sprintGames'[g], c) >= TapsIn(sprintGames[g], c)
        /\ TapsIn(sprintGames'[g], c) # TapsIn(sprintGames[g], c) =>
             /\ sprintGames[g].status = "active"
             /\ sprintGames'[g].status = "active"

\* C29: a player's taps is a non-negative integer, is 0 whenever the game is
\* waiting or in countdown (a second join-sprint of the same socket for the
\* same game included), never goes down while the player is in the roster,
\* and changes only while the game is active.
C29_TapsMonotone == [](C29_State) /\ [][C29_Step]_vars

\* One game in countdown with a connected player that can join it again,
\* beside an active game where a player has all its taps counted
C29_Witness ==
  \E g, h \in GameIds :
    /\ HasStatus(g, "countdown")
    /\ sprintGames[g].countdown < CountdownStart
    /\ \E c \in connected : c \in PlayerIds(sprintGames[g].players)
    /\ HasStatus(h, "active")
    /\ \E i \in 1..Len(sprintGames[h].players) :
         sprintGames[h].players[i].taps = MaxTaps

\* Values of Date.now() tried on the handlers
Clock == {1000, 2000}

\* The times and the duration of game g are the same in the registry games as
\* in the current one
SameTimes(games, g) ==
  /\ g \in DOMAIN games
  /\ games[g].startTime = sprintGames[g].startTime
  /\ games[g].endTime = sprintGames[g].endTime
  /\ games[g].gameDuration = sprintGames[g].gameDuration

\* startTime and endTime are null in waiting and countdown and set, with
\* endTime = startTime + gameDuration, from active on; gameDuration is the
\* 15000 of the creation; and no handler changes any of them, but for the
\* interval callback that starts the game, which sets the times it finds null
C30_State ==
  \A g \in DOMAIN sprintGames :
    /\ sprintGames[g].gameDuration = GameDuration
    /\ IF sprintGames[g].status \in {"waiting", "countdown"}
       THEN sprintGames[g].startTime = NULL /\ sprintGames[g].endTime = NULL
       ELSE /\ sprintGames[g].startTime \in Times
            /\ sprintGames[g].endTime
                 = sprintGames[g].startTime + sprintGames[g].gameDuration
    /\ \A c \in Conns, h \in GameIds :
         /\ SameTimes(joinSprint(c, h, UsernameOf(c)).sprintGames, g)
         /\ SameTimes(tap(c, h).sprintGames, g)
         /\ SameTimes(disconnect(c).sprintGames, g)
    /\ \A h \in endTimeout : SameTimes(endSprintGame(h).sprintGames, g)
    /\ \A h \in countdownInterval, now \in Clock :
         LET r == countdownTick(h, now)
         IN IF h = g /\ r.sprintGames[g].status = "active"
            THEN /\ sprintGames[g].startTime = NULL
                 /\ sprintGames[g].endTime = NULL
                 /\ r.sprintGames[g].startTime = now
                 /\ r.sprintGames[g].endTime = now + GameDuration
                 /\ r.sprintGames[g].gameDuration = GameDuration
            ELSE SameTimes(r.sprintGames, g)

\* The times change in one kind of step, the one that takes the game from
\* countdown to active
C30_Step ==
  \A g \in GameIds :
    (Live(g) /\ Live(g)') =>
      /\ sprintGames'[g].gameDuration = sprintGames[g].gameDuration
      /\ (sprintGames'[g].startTime # sprintGames[g].startTime
            \/ sprintGames'[g].endTime # sprintGames[g].endTime) =>
           /\ sprintGames[g].status = "countdown"
           /\ sprintGames'[g].status = "active"
      /\ (sprintGames[g].status # "active"
            /\ sprintGames'[g].status = "active") =>
           /\ sprintGames[g].startTime = NULL
           /\ sprintGames'[g].startTime # NULL

\* C30: startTime and endTime are null while the game is waiting or in
\* countdown, are set once, when it becomes active, with endTime = startTime
\* + gameDuration, and are never written again; gameDuration keeps the value
\* the game was created with.
C30_TimesSetOnce == [](C30_State) /\ [][C30_Step]_vars

\* A finished game that was joined, tapped and left still has the times of
\* its start
C30_Witness ==
  \E g \in GameIds :
    /\ HasStatus(g, "finished")
    /\ sprintGames[g].startTime = 1000
    /\ sprintGames[g].endTime = 1000 + GameDuration
    /\ \E p \in leftActive : p[2] = g
    /\ \E c \in Conns : accepted[g][c] >= 1

\* C31: the INSERT endSprintGame issues for a player carries the users.id of
\* the logged-in caller who joined as that player, and null for an anonymous
\* player.
C31_RowCarriesUserId ==
  \A g \in endTimeout :
    LET players == sprintGames[g].players
        rows == Writes(endSprintGame(g).dbQueue, g)
    IN /\ Len(rows) = Len(players)
       /\ \A i \in 1..Len(players) :
            /\ rows[i].taps = players[i].taps
            /\ rows[i].user_id = UserIdOf(players[i].id)

\* C32: a game with status waiting has no player, in every reachable state:
\* the join-sprint that adds the first player sets the game to countdown
\* before the handler returns.
C32_WaitingIsEmpty ==
  \A g \in DOMAIN sprintGames :
    /\ sprintGames[g].status = "waiting" => sprintGames[g].players = <<>>
    /\ sprintGames[g].status = "waiting" =>
         \A c \in connected :
           LET r == joinSprint(c, g, UsernameOf(c))
           IN /\ PlayerIds(r.sprintGames[g].players) = {c}
              /\ r.sprintGames[g].status = "countdown"

\* The first player has just joined one game, which is in countdown with no
\* tick yet, and the other game is still waiting, empty
C32_Witness ==
  \E g, h \in GameIds :
    /\ HasStatus(g, "countdown")
    /\ Len(sprintGames[g].players) = 1
    /\ ticks[g] = 0
    /\ HasStatus(h, "waiting")
    /\ sprintGames[h].players = <<>>

\* The place of an event name in the life of a game
Phase(name) ==
  CASE name = "countdown" -> 1
    [] name = "game-started" -> 2
    [] name = "tap-update" -> 3
    [] name = "game-ended" -> 4

\* The events emitted for a game so far came in the order countdown,
\* game-started, tap-update, game-ended, each kind in one run; game-started is
\* there before any tap-update or game-ended; and the log agrees with the
\* status: game-started is in it exactly from active on
C33_State ==
  \A g \in GameIds :
    LET log == eventLog[g]
    IN /\ \A i, j \in 1..Len(log) : i < j => Phase(log[i]) < Phase(log[j])
       /\ \A i \in 1..Len(log) :
            log[i] \in {"tap-update", "game-ended"} =>
              \E j \in 1..(i - 1) : log[j] = "game-started"
       /\ \A i \in 1..Len(log) :
            log[i] = "game-started" =>
              \E j \in 1..(i - 1) : log[j] = "countdown"
       /\ Live(g) =>
            ((\E i \in 1..Len(log) : log[i] = "game-started")
               <=> sprintGames[g].status \in {"active", "finished"})

\* No step emits a countdown for a game that is active or finished
C33_Step ==
  \A g \in GameIds :
    (Live(g) /\ sprintGames[g].status \in {"active", "finished"}) =>
      \/ eventLog'[g] = eventLog[g]
      \/ eventLog'[g] = <<>>
      \/ /\ Len(eventLog'[g]) = Len(eventLog[g]) + 1
         /\ eventLog'[g][Len(eventLog'[g])] \in {"tap-update", "game-ended"}

\* C33: among the events emitted for one game every countdown comes before
\* game-started, game-started comes before every tap-update and before
\* game-ended, and no countdown is emitted once the game is active or
\* finished.
C33_EventOrder == [](C33_State) /\ [][C33_Step]_vars

\* A game that emitted all four kinds of event
C33_Witness ==
  \E g \in GameIds :
    eventLog[g] = <<"countdown", "game-started", "tap-update", "game-ended">>

====
